---- MODULE Spec2Model ----
(***************************************************************************)
(* log-cruncher: the bounded-concurrency fetch pipeline (fetcher.rs), the  *)
(* orchestrator loop (fetch/src/lib.rs), the object lifecycle              *)
(* (LogSet::complete) and the transactional store (cruncher.rs, lib.rs).   *)
(*                                                                         *)
(* Spec      : one run of Cruncher::crunch over a listing of at most       *)
(*             NumEntries entries with a channel of `capacity` slots.      *)
(* FairSpec  : Spec with the fairness of the tokio scheduler.              *)
(* SpecStore : concurrent callers of Cruncher::crunch_gz on one shared     *)
(*             connection.                                                 *)
(***************************************************************************)
EXTENDS Integers, Sequences, FiniteSets, TLC

\* ------------------------------------------------------------------ bounds
\* The listing yields at most NumEntries entries (objects or listing errors).
NumEntries == 2
\* fetch(buffer) is called with a buffer in 1..MaxCapacity.
MaxCapacity == 2
\* An object body holds at most MaxLines lines.
MaxLines == 2
\* A reader yields at most MaxStream bytes, and a read has a buf of at most
\* MaxRead bytes.
MaxStream == 4
MaxRead == 2

\* Object names: the object listed at position i is named i.
Names == 1..NumEntries
\* A line of an object body: 0 is a line serde_json rejects, k > 0 decodes to
\* the entry whose natural keys are k.
BadLine == 0
Keys == {1, 2}
Lines == {BadLine} \cup Keys
\* The bodies a retrieval may return in a pipeline run.
ObjectBodies == {<<1>>, <<1, BadLine>>}

\* ------------------------------------------------------- anyhow::Result<()>
Frame(msg, arg) == [msg |-> msg, arg |-> arg]
Ok == [ok |-> TRUE, err |-> <<>>]
Err(frames) == [ok |-> FALSE, err |-> frames]
\* Context / with_context: the new frame becomes the outermost one.
WithContext(res, msg, arg) ==
    IF res.ok THEN res ELSE Err(<<Frame(msg, arg)>> \o res.err)

VARIABLES
    cleanup,    \* Fetcher.cleanup
    capacity,   \* the buffer passed to fetch()
    storage,    \* the objects present in the bucket
    disc,       \* position of the discovery task (fetch / fetch_loop)
    loopErr,    \* the error the discovery task is about to send
    listPos,    \* entries the lister has yielded so far
    unit,       \* position of the retrieval unit spawned for each entry
    permits,    \* free permits of the channel's semaphore
    queue,      \* messages buffered in the channel
    rxOpen,     \* the Receiver has not been dropped
    orch,       \* position of the orchestrator (Cruncher::crunch)
    cur,        \* the LogSet the orchestrator holds
    crunchRes,  \* crunch_result of the current iteration
    okCount,    \* ok
    errCount,   \* err
    reported,   \* the totals logged at the end of the run
    runResult,  \* what Cruncher::crunch returned
    db,         \* committed contents of the database
    emit,       \* history: results each unit sent on the open channel
    fin,        \* history: LogSet::complete calls per object
    lastFin,    \* history: the latest LogSet::complete call and its result
    received,   \* history: items the orchestrator received
    trail,      \* history: what has happened to the set in cur, in order
    listing     \* history: what the lister yielded at each position

\* Callers of Cruncher::crunch_gz sharing one Cruncher (SpecStore).
VARIABLES
    caller,     \* position of each caller inside crunch_gz
    callData,   \* the lines of the buffer each caller passes
    callIdx,    \* the entry the caller's for loop stores next
    lockHolder, \* the caller holding the Mutex<Connection>, or NoCaller
    txOpen,     \* callers with a transaction begun and not yet ended
    dbBefore,   \* the contents at the start of each caller's transaction
    callRes,    \* what crunch_gz returned to each caller
    hist        \* history per caller: entries stored, contents at return

pipeVars == <<cleanup, capacity, storage, disc, loopErr, listPos, unit, permits,
              queue, rxOpen>>
orchVars == <<orch, cur, crunchRes, okCount, errCount, reported, runResult>>
histVars == <<emit, fin, lastFin, received>>
storeVars == <<caller, callData, callIdx, lockHolder, txOpen, dbBefore, callRes, hist>>

\* One CommaHacker over a reader, and the caller reading from it (SpecRepair).
VARIABLES
    input,      \* CommaHacker.input: the bytes the reader has not yielded yet
    buffer,     \* CommaHacker.buffer
    out,        \* history: the bytes the reads have returned so far
    stream,     \* history: the whole input
    lastLine,   \* history: the latest line read_line returned and its repair
    lastRead    \* history: the latest read: size of buf, bytes returned

\* One Cruncher and the objects handed to crunch_gz (SpecIngest).
VARIABLES
    cursor,     \* the object: the fields of its line, trailing comma, copies
    ingests,    \* calls of crunch_gz that have returned
    ingest      \* history: the latest call: entries decoded, result

hackVars == <<input, buffer, out, stream, lastLine, lastRead>>
ingestVars == <<cursor, ingests, ingest>>
toolVars == <<hackVars, ingestVars>>

\* ------------------------------------------------------ transactional store
NULL == 0
\* The dimension tables and the fact table; a row's id is its position.
EmptyDb == [client_ips |-> <<>>, paths |-> <<>>, referers |-> <<>>,
            user_agents |-> <<>>, requests |-> <<>>]

\* A Duration: whole seconds and the microseconds below one second.
FromMicros(usec) == [secs |-> usec \div 1000000, micros |-> usec % 1000000]

\* LogEntry, with the fields the store writes.
LogEntry(ip, path, referer, ua, ipv6, http2, duration, start) ==
    [client_ip |-> ip, url_path |-> path, referer |-> referer,
     user_agent |-> ua, ipv6 |-> ipv6, http2 |-> http2,
     response_duration |-> duration, request_start_time |-> start]

\* serde_json on one line of the body: a LogEntry, or a parse error.  Line k
\* holds the client, path, referer and user agent numbered k; the client has
\* an IPv4 address when k is odd and an IPv6 address when k is even.
ParseLine(line) ==
    IF line = BadLine
    THEN [ok |-> FALSE, entry |-> NULL]
    ELSE [ok |-> TRUE,
          entry |-> LogEntry([v |-> IF line % 2 = 1 THEN 4 ELSE 6, addr |-> <<line>>],
                             line, line, line,
                             FALSE, FALSE, FromMicros(0), 0)]

\* Option<String>::None, bound to a statement as SQL NULL; a text is a
\* non-empty sequence.
None == <<>>

\* get_ipv4 / get_ipv6
GetIpv4(ip) == IF ip.v = 4 THEN ip.addr ELSE None
GetIpv6(ip) == IF ip.v = 6 THEN ip.addr ELSE None

DigitChars == <<"0", "1", "2", "3", "4", "5", "6", "7", "8", "9">>
\* The decimal text of a number that is not negative.
RECURSIVE DecimalText(_)
DecimalText(n) ==
    IF n < 10
    THEN <<DigitChars[n + 1]>>
    ELSE Append(DecimalText(n \div 10), DigitChars[(n % 10) + 1])

\* Duration::as_secs_f32, kept exact: the seconds counted in millionths.
AsSecs(d) == d.secs * 1000000 + d.micros

\* DateTime<Utc>::to_rfc3339: the seconds of the instant and the offset +0.
ToRfc3339(t) == DecimalText(t) \o <<"T", "+", "0">>

\* The uniqueness constraint of a dimension table: a row with the same
\* natural key is already there.
Conflicts(table, row) == \E i \in 1..Len(table) : table[i] = row

\* A plain INSERT.
InsertAlways(table, row) == Append(table, row)

\* INSERT INTO <table> (..) VALUES (..) ON CONFLICT DO NOTHING;
InsertOrIgnore(table, row) ==
    IF Conflicts(table, row) THEN table ELSE Append(table, row)

\* ( SELECT id FROM <table> WHERE <key column> = :key ): the id of the first
\* such row, or NULL.
Lookup(table, key) ==
    IF \E i \in 1..Len(table) : table[i] = key
    THEN CHOOSE i \in 1..Len(table) :
           table[i] = key /\ \A j \in 1..(i - 1) : table[j] # key
    ELSE NULL

\* WHERE ipv4 = :client_ipv4 AND ipv6 = :client_ipv6
WhereIpBothColumns(r, v4, v6) ==
    /\ (v4 # None /\ r.ipv4 = v4)
    /\ (v6 # None /\ r.ipv6 = v6)

\* WHERE ipv4 = :client_ipv4 OR ipv6 = :client_ipv6; a comparison with a NULL
\* parameter is never true.
WhereIp(r, v4, v6) ==
    \/ (v4 # None /\ r.ipv4 = v4)
    \/ (v6 # None /\ r.ipv6 = v6)

\* ( SELECT id FROM client_ips WHERE ipv4 = :client_ipv4 OR ipv6 = :client_ipv6 )
LookupIp(table, v4, v6) ==
    IF \E i \in 1..Len(table) : WhereIp(table[i], v4, v6)
    THEN CHOOSE i \in 1..Len(table) :
           WhereIp(table[i], v4, v6) /\ \A j \in 1..(i - 1) : ~WhereIp(table[j], v4, v6)
    ELSE NULL

\* The first n of the five statements of LogEntry::store, run on tx.
StoreStmts(tx, e, n) ==
    LET ipv4 == GetIpv4(e.client_ip)
        ipv6 == GetIpv6(e.client_ip)
        t1 == IF n >= 1
              THEN [tx EXCEPT !.client_ips =
                       InsertOrIgnore(@, [ipv4 |-> ipv4, ipv6 |-> ipv6])]
              ELSE tx
        t2 == IF n >= 2 THEN [t1 EXCEPT !.paths = InsertOrIgnore(@, e.url_path)] ELSE t1
        t3 == IF n >= 3 THEN [t2 EXCEPT !.referers = InsertOrIgnore(@, e.referer)] ELSE t2
        t4 == IF n >= 4
              THEN [t3 EXCEPT !.user_agents = InsertOrIgnore(@, e.user_agent)]
              ELSE t3
        t5 == IF n >= 5
              THEN [t4 EXCEPT !.requests = Append(@,
                       [client_ip |-> LookupIp(t4.client_ips, ipv4, ipv6),
                        ipv6 |-> e.ipv6,
                        http2 |-> e.http2,
                        response_duration |-> AsSecs(e.response_duration),
                        request_start_time |-> ToRfc3339(e.request_start_time),
                        url_path |-> Lookup(t4.paths, e.url_path),
                        referer |-> Lookup(t4.referers, e.referer),
                        user_agent |-> Lookup(t4.user_agents, e.user_agent)])]
              ELSE t4
    IN  t5

\* LogEntry::store(&tx): failStmt = 0 runs all five statements; failStmt = k
\* has statement k return a rusqlite error (the ? returns at once).
StoreEntry(tx, e, failStmt) ==
    IF failStmt = 0
    THEN [tx |-> StoreStmts(tx, e, 5), ok |-> TRUE]
    ELSE [tx |-> StoreStmts(tx, e, failStmt - 1), ok |-> FALSE]

\* Where a crunch call may fail: nowhere, at conn.transaction(), at statement
\* stmt of entry i (1-based here, reported 0-based), or at tx.commit().
NoFail == [at |-> "none", i |-> 0, stmt |-> 0]
FailPoints(entries) ==
    {NoFail, [at |-> "begin", i |-> 0, stmt |-> 0], [at |-> "commit", i |-> 0, stmt |-> 0]}
    \cup {[at |-> "entry", i |-> i, stmt |-> k] : i \in 1..Len(entries), k \in 1..5}

\* A transaction whose drop behaviour is to commit.
DropTransactionCommits(before, tx) == tx

\* Dropping a Transaction that was not committed rolls it back: the
\* connection shows the contents from before the transaction.
DropTransaction(before, tx) == before

\* The for loop of Cruncher::crunch from entry i on, inside transaction tx.
RECURSIVE StoreFrom(_, _, _, _, _)
StoreFrom(before, tx, entries, i, f) ==
    IF i > Len(entries)
    THEN IF f.at = "commit"
         THEN [db |-> DropTransaction(before, tx),
               res |-> Err(<<Frame("could not commit transaction", 0)>>)]
         ELSE [db |-> tx, res |-> Ok]
    ELSE LET r == StoreEntry(tx, entries[i],
                             IF f.at = "entry" /\ f.i = i THEN f.stmt ELSE 0)
         IN  IF r.ok
             THEN StoreFrom(before, r.tx, entries, i + 1, f)
             ELSE [db |-> DropTransaction(before, r.tx),
                   res |-> Err(<<Frame("in entry", i - 1)>>)]

\* Cruncher::crunch(&self, data) called by the only holder of the Cruncher:
\* lock, begin, store every entry, commit.
Crunch(d, entries, f) ==
    IF f.at = "begin"
    THEN [db |-> d, res |-> Err(<<Frame("could not begin transaction", 0)>>)]
    ELSE StoreFrom(d, d, entries, 1, f)

\* collect() over the enumerated decode results: the entries, or the first
\* parse error with its 0-based position.
RECURSIVE DecodeFrom(_, _)
DecodeFrom(data, i) ==
    IF i > Len(data)
    THEN [res |-> Ok, entries |-> <<>>]
    ELSE LET p == ParseLine(data[i])
         IN  IF ~p.ok
             THEN [res |-> Err(<<Frame("JSON parse error in entry", i - 1)>>),
                   entries |-> <<>>]
             ELSE LET rest == DecodeFrom(data, i + 1)
                  IN  IF rest.res.ok
                      THEN [res |-> Ok, entries |-> <<p.entry>> \o rest.entries]
                      ELSE rest
\* A decoder that leaves out the lines it cannot parse.
DecodeEntriesSkippingBad(data) ==
    DecodeFrom(SelectSeq(data, LAMBDA l : l # BadLine), 1)

DecodeEntries(data) == DecodeFrom(data, 1)

\* TryFrom<LogSet<u8>> for LogSet<LogEntry>
TryFromLogSet(name, data) ==
    LET d == DecodeEntries(data)
    IN  [res |-> WithContext(d.res, "in log set", name), entries |-> d.entries]

\* ------------------------------------------------------------ fetch pipeline
NoSet == [name |-> 0, data |-> <<>>, entries |-> <<>>]
NotReported == [done |-> FALSE, total |-> 0, ok |-> 0, err |-> 0]

\* A message of the channel: anyhow::Result<LogSet<u8>>.
OkItem(name, data) == [ok |-> TRUE, name |-> name, data |-> data, err |-> <<>>]
ErrItem(frames) == [ok |-> FALSE, name |-> 0, data |-> <<>>, err |-> frames]

\* Fetcher::fetch_one(path): the reader fails to start, the read fails, or
\* the body is returned as a LogSet.
FetchOutcomes == {"ok", "reader_err", "read_err"}
FetchOne(path, outcome, body) ==
    CASE outcome = "reader_err" ->
           ErrItem(<<Frame("failed to start read of object", path)>>)
      [] outcome = "read_err" ->
           ErrItem(<<Frame("failed to read object contents", path)>>)
      [] OTHER -> OkItem(path, body)

\* A channel that closes as soon as discovery is over.
SendersDroppedAfterListing == disc = "done"

\* A channel whose first Sender is never dropped.
SendersNeverDropped == FALSE

\* Every Sender (tx, tx_ch and the clone of each unit) has been dropped.
SendersDropped ==
    /\ disc = "done"
    /\ \A i \in Names : unit[i] \in {"none", "done", "gone"}

\* Slots in use: permits held by units that are retrieving, and messages
\* the receiver has not taken yet.
Fetching == {i \in Names : unit[i] = "fetching"}

\* self.operator.lister("") succeeds: the while loop starts.
DiscListerOk ==
    /\ disc = "lister"
    /\ disc' = "next"
    /\ UNCHANGED <<cleanup, capacity, storage, loopErr, listPos, unit, permits,
                   queue, rxOpen>>
    /\ UNCHANGED <<orchVars, db, histVars>>
    /\ UNCHANGED <<storeVars, toolVars, trail, listing>>

\* self.operator.lister("") fails: fetch_loop returns the error, which the
\* task spawned by fetch() sends.
DiscListerErr ==
    /\ disc = "lister"
    /\ disc' = "send_final"
    /\ loopErr' = Err(<<Frame("could not list entries from storage", 0)>>)
    /\ UNCHANGED <<cleanup, capacity, storage, listPos, unit, permits, queue, rxOpen>>
    /\ UNCHANGED <<orchVars, db, histVars>>
    /\ UNCHANGED <<storeVars, toolVars, trail, listing>>

\* A spawner that claims the permit itself and hands it to the unit.
SpawnUnitWithPermit(i) ==
    /\ rxOpen
    /\ permits > 0
    /\ permits' = permits - 1
    /\ unit' = [unit EXCEPT ![i] = "fetching"]

\* tokio::spawn(async move { .. }): the unit exists and has yet to reserve;
\* the spawner takes no permit.
SpawnUnit(i) ==
    /\ unit' = [unit EXCEPT ![i] = "waiting"]
    /\ UNCHANGED permits

\* lister.next() yields Ok(v): a unit is spawned for v.path().
DiscNextEntry ==
    /\ disc = "next"
    /\ listPos < NumEntries
    /\ listPos' = listPos + 1
    /\ SpawnUnit(listPos + 1)
    /\ UNCHANGED <<cleanup, capacity, storage, disc, loopErr, queue, rxOpen>>
    /\ UNCHANGED <<orchVars, db, histVars>>
    /\ listing' = [listing EXCEPT ![listPos + 1] = "entry"]
    /\ UNCHANGED <<storeVars, toolVars, trail>>

\* lister.next() yields Err(e): the loop goes on to tx.send(Err(e)).await.
DiscNextError ==
    /\ disc = "next"
    /\ listPos < NumEntries
    /\ listPos' = listPos + 1
    /\ disc' = "send_err"
    /\ loopErr' = Err(<<Frame("in listing bucket entries: ", listPos + 1)>>)
    /\ UNCHANGED <<cleanup, capacity, storage, unit, permits, queue, rxOpen>>
    /\ UNCHANGED <<orchVars, db, histVars>>
    /\ listing' = [listing EXCEPT ![listPos + 1] = "error"]
    /\ UNCHANGED <<storeVars, toolVars, trail>>

\* A loop that sends the listing error and then returns.
DiscSendErrFatal ==
    /\ disc = "send_err"
    /\ rxOpen
    /\ permits > 0
    /\ permits' = permits - 1
    /\ queue' = Append(queue, ErrItem(loopErr.err))
    /\ disc' = "done"
    /\ loopErr' = Ok
    /\ UNCHANGED <<cleanup, capacity, storage, listPos, unit, rxOpen>>
    /\ UNCHANGED <<orchVars, db, histVars>>
    /\ listing' = [listing EXCEPT ![listPos] = "reported"]
    /\ UNCHANGED <<storeVars, toolVars, trail>>

\* tx.send(Err(e)).await in the loop gets a slot: the error is queued and
\* the loop continues.
DiscSendErr ==
    /\ disc = "send_err"
    /\ rxOpen
    /\ permits > 0
    /\ permits' = permits - 1
    /\ queue' = Append(queue, ErrItem(loopErr.err))
    /\ disc' = "next"
    /\ loopErr' = Ok
    /\ UNCHANGED <<cleanup, capacity, storage, listPos, unit, rxOpen>>
    /\ UNCHANGED <<orchVars, db, histVars>>
    /\ listing' = [listing EXCEPT ![listPos] = "reported"]
    /\ UNCHANGED <<storeVars, toolVars, trail>>

\* tx.send(Err(e)).await in the loop fails (receiver dropped): fetch_loop
\* returns "could not propagate error from fetch loop".
DiscSendErrClosed ==
    /\ disc = "send_err"
    /\ ~rxOpen
    /\ disc' = "send_final"
    /\ loopErr' = Err(<<Frame("could not propagate error from fetch loop: ", 0)>>)
    /\ UNCHANGED <<cleanup, capacity, storage, listPos, unit, permits, queue, rxOpen>>
    /\ UNCHANGED <<orchVars, db, histVars>>
    /\ listing' = [listing EXCEPT ![listPos] = "unsent"]
    /\ UNCHANGED <<storeVars, toolVars, trail>>

\* lister.next() yields None: fetch_loop returns Ok(()), tx and tx_ch drop.
DiscNextNone ==
    /\ disc = "next"
    /\ disc' = "done"
    /\ UNCHANGED <<cleanup, capacity, storage, loopErr, listPos, unit, permits,
                   queue, rxOpen>>
    /\ UNCHANGED <<orchVars, db, histVars>>
    /\ UNCHANGED <<storeVars, toolVars, trail, listing>>

\* fetch(): let _ = tx.send(Err(e)).await, with a slot.
DiscSendFinal ==
    /\ disc = "send_final"
    /\ rxOpen
    /\ permits > 0
    /\ permits' = permits - 1
    /\ queue' = Append(queue, ErrItem(loopErr.err))
    /\ disc' = "done"
    /\ loopErr' = Ok
    /\ UNCHANGED <<cleanup, capacity, storage, listPos, unit, rxOpen>>
    /\ UNCHANGED <<orchVars, db, histVars>>
    /\ UNCHANGED <<storeVars, toolVars, trail, listing>>

\* fetch(): let _ = tx.send(Err(e)).await fails; the send error is ignored.
DiscSendFinalClosed ==
    /\ disc = "send_final"
    /\ ~rxOpen
    /\ disc' = "done"
    /\ loopErr' = Ok
    /\ UNCHANGED <<cleanup, capacity, storage, listPos, unit, permits, queue, rxOpen>>
    /\ UNCHANGED <<orchVars, db, histVars>>
    /\ UNCHANGED <<storeVars, toolVars, trail, listing>>

\* reserve() that hands out a permit even when none is free.
ReserveSlotUnbounded(i) ==
    /\ rxOpen
    /\ permits' = permits - 1
    /\ unit' = [unit EXCEPT ![i] = "fetching"]

\* tx.reserve().await returns a permit: the unit holds one slot.
ReserveSlot(i) ==
    /\ rxOpen
    /\ permits > 0
    /\ permits' = permits - 1
    /\ unit' = [unit EXCEPT ![i] = "fetching"]

UnitReserve(i) ==
    /\ unit[i] = "waiting"
    /\ ReserveSlot(i)
    /\ UNCHANGED <<cleanup, capacity, storage, disc, loopErr, listPos, queue, rxOpen>>
    /\ UNCHANGED <<orchVars, db, histVars>>
    /\ UNCHANGED <<storeVars, toolVars, trail, listing>>

\* A reserve() that hands the unit a slot of a closed channel.
UnitReserveClosedFetches(i) ==
    /\ unit[i] = "waiting"
    /\ ~rxOpen
    /\ unit' = [unit EXCEPT ![i] = "fetching"]
    /\ UNCHANGED <<cleanup, capacity, storage, disc, loopErr, listPos, permits,
                   queue, rxOpen>>
    /\ UNCHANGED <<orchVars, db, histVars>>
    /\ UNCHANGED <<storeVars, toolVars, trail, listing>>

\* tx.reserve().await fails (receiver dropped): the unit ends silently.
UnitReserveClosed(i) ==
    /\ unit[i] = "waiting"
    /\ ~rxOpen
    /\ unit' = [unit EXCEPT ![i] = "gone"]
    /\ UNCHANGED <<cleanup, capacity, storage, disc, loopErr, listPos, permits,
                   queue, rxOpen>>
    /\ UNCHANGED <<orchVars, db, histVars>>
    /\ UNCHANGED <<storeVars, toolVars, trail, listing>>

\* permit.send(fetcher.fetch_one(v.path()).await): the result takes the
\* reserved slot.  With the receiver dropped the value is discarded.
UnitFetchSend(i) ==
    /\ unit[i] = "fetching"
    /\ \E outcome \in FetchOutcomes, body \in ObjectBodies :
         LET item == FetchOne(i, outcome, body)
         IN  /\ queue' = IF rxOpen THEN Append(queue, item) ELSE queue
             /\ emit' = IF rxOpen
                        THEN [emit EXCEPT ![i] = [n |-> @.n + 1, ok |-> item.ok]]
                        ELSE emit
    /\ unit' = [unit EXCEPT ![i] = "done"]
    /\ UNCHANGED <<cleanup, capacity, storage, disc, loopErr, listPos, permits, rxOpen>>
    /\ UNCHANGED <<orchVars, db, fin, lastFin, received>>
    /\ UNCHANGED <<storeVars, toolVars, trail, listing>>

\* -------------------------------------------------------- object lifecycle
\* delete_object without the test of self.cleanup.
DeleteObjectIgnoringCleanup(cl, st, object, delOk) ==
    [attempted |-> TRUE,
     storage |-> IF delOk THEN st \ {object} ELSE st,
     ret |-> IF delOk THEN Ok
             ELSE Err(<<Frame("could not delete object", object)>>)]

\* Fetcher::delete_object(object): with cleanup the operator's delete is
\* called, and it succeeds (delOk) or fails; without cleanup nothing is done.
DeleteObject(cl, st, object, delOk) ==
    IF cl
    THEN [attempted |-> TRUE,
          storage |-> IF delOk THEN st \ {object} ELSE st,
          ret |-> IF delOk THEN Ok
                  ELSE Err(<<Frame("could not delete object", object)>>)]
    ELSE [attempted |-> FALSE, storage |-> st, ret |-> Ok]

\* complete that cleans up whatever the status.
CompleteAlwaysDeletes(cl, st, name, status, delOk) ==
    [attempted |-> cl,
     storage |-> IF cl /\ delOk THEN st \ {name} ELSE st,
     ret |-> IF status.ok THEN Ok
             ELSE WithContext(status, "in handling object", name)]

\* LogSet::complete(self, status)
Complete(cl, st, name, status, delOk) ==
    IF status.ok
    THEN LET d == DeleteObject(cl, st, name, delOk)
         IN  [attempted |-> d.attempted, storage |-> d.storage,
              ret |-> WithContext(d.ret, "failed to delete object: ", 0)]
    ELSE [attempted |-> FALSE, storage |-> st,
          ret |-> WithContext(status, "in handling object", name)]

\* ------------------------------------------------------------- orchestrator
\* cruncher::Cruncher::new(&self.database)? succeeds.
OrchOpen ==
    /\ orch = "open"
    /\ orch' = "recv"
    /\ UNCHANGED <<cur, crunchRes, okCount, errCount, reported, runResult>>
    /\ UNCHANGED <<pipeVars, db, histVars>>
    /\ UNCHANGED <<storeVars, toolVars, trail, listing>>

\* cruncher::Cruncher::new(&self.database)? fails: crunch returns the error
\* and log_sets is dropped.
OrchOpenErr ==
    /\ orch = "open"
    /\ orch' = "failed"
    /\ runResult' = Err(<<Frame("could not open DB", 0)>>)
    /\ rxOpen' = FALSE
    /\ queue' = <<>>
    /\ UNCHANGED <<cur, crunchRes, okCount, errCount, reported>>
    /\ UNCHANGED <<cleanup, capacity, storage, disc, loopErr, listPos, unit, permits>>
    /\ UNCHANGED <<db, histVars>>
    /\ UNCHANGED <<storeVars, toolVars, trail, listing>>

\* recv() hands out the oldest message and frees its slot.
ReleaseSlot == permits' = permits + 1

\* log_sets.recv().await yields Some(Ok(log_set)).
OrchRecvSet ==
    /\ orch = "recv"
    /\ queue # <<>>
    /\ Head(queue).ok
    /\ queue' = Tail(queue)
    /\ ReleaseSlot
    /\ cur' = [name |-> Head(queue).name, data |-> Head(queue).data, entries |-> <<>>]
    /\ orch' = "decode"
    /\ received' = [received EXCEPT !.n = @ + 1, !.sets = @ \cup {Head(queue).name}]
    /\ UNCHANGED <<crunchRes, okCount, errCount, reported, runResult>>
    /\ UNCHANGED <<cleanup, capacity, storage, disc, loopErr, listPos, unit, rxOpen>>
    /\ UNCHANGED <<db, emit, fin, lastFin>>
    /\ trail' = <<>>
    /\ UNCHANGED <<storeVars, toolVars, listing>>

\* log_sets.recv().await yields Some(Err(e)): log_set.context(..)? returns
\* from the async block, so crunch returns the error; log_sets is dropped
\* with the messages still buffered in it.
OrchRecvErr ==
    /\ orch = "recv"
    /\ queue # <<>>
    /\ ~Head(queue).ok
    /\ queue' = <<>>
    /\ ReleaseSlot
    /\ rxOpen' = FALSE
    /\ orch' = "aborted"
    /\ runResult' = WithContext(Err(Head(queue).err),
                                "got error in streaming log sets", 0)
    /\ received' = [received EXCEPT !.n = @ + 1, !.errs = @ + 1]
    /\ UNCHANGED <<cur, crunchRes, okCount, errCount, reported>>
    /\ UNCHANGED <<cleanup, capacity, storage, disc, loopErr, listPos, unit>>
    /\ UNCHANGED <<db, emit, fin, lastFin>>
    /\ UNCHANGED <<storeVars, toolVars, trail, listing>>

\* log_sets.recv().await yields None (no message, every sender dropped):
\* the loop ends and the totals are logged.
OrchRecvNone ==
    /\ orch = "recv"
    /\ queue = <<>>
    /\ SendersDropped
    /\ reported' = [done |-> TRUE, total |-> okCount + errCount,
                    ok |-> okCount, err |-> errCount]
    /\ orch' = "done"
    /\ rxOpen' = FALSE
    /\ UNCHANGED <<cur, crunchRes, okCount, errCount, runResult>>
    /\ UNCHANGED <<cleanup, capacity, storage, disc, loopErr, listPos, unit,
                   permits, queue>>
    /\ UNCHANGED <<db, histVars>>
    /\ UNCHANGED <<storeVars, toolVars, trail, listing>>

\* The bytes of the received set are decoded into entries before the store
\* is called; a decode failure is the processing outcome of the object.
OrchDecode ==
    /\ orch = "decode"
    /\ LET d == TryFromLogSet(cur.name, cur.data)
       IN  /\ cur' = [cur EXCEPT !.entries = d.entries]
           /\ crunchRes' = d.res
    /\ orch' = "crunch"
    /\ UNCHANGED <<okCount, errCount, reported, runResult>>
    /\ UNCHANGED <<pipeVars, db, histVars>>
    /\ trail' = <<IF crunchRes'.ok THEN "decoded" ELSE "decode failed">>
    /\ UNCHANGED <<storeVars, toolVars, listing>>

\* What a call of crunch did with its transaction: conn.transaction() failed,
\* or the transaction began and was committed or dropped.
TransactionTrail(f, res) ==
    IF f.at = "begin"
    THEN <<"begin failed">>
    ELSE <<"begin", IF res.ok THEN "commit" ELSE "rollback">>

\* cruncher.crunch(&log_set.data).with_context(..), then ok += 1 or err += 1.
OrchCrunch ==
    /\ orch = "crunch"
    /\ \E f \in FailPoints(cur.entries) :
         LET c == IF crunchRes.ok
                  THEN Crunch(db, cur.entries, f)
                  ELSE [db |-> db, res |-> crunchRes]
             r == WithContext(c.res, "error in processing log file", cur.name)
         IN  /\ db' = c.db
             /\ crunchRes' = r
             /\ okCount' = IF r.ok THEN okCount + 1 ELSE okCount
             /\ errCount' = IF r.ok THEN errCount ELSE errCount + 1
             /\ trail' = IF crunchRes.ok
                         THEN trail \o TransactionTrail(f, c.res) \o <<"store returned">>
                         ELSE trail
    /\ orch' = "complete"
    /\ UNCHANGED <<cur, reported, runResult>>
    /\ UNCHANGED <<pipeVars, histVars>>
    /\ UNCHANGED <<storeVars, toolVars, listing>>

\* log_set.complete(crunch_result).await; an error is logged and the loop
\* goes on to the next recv().
OrchComplete ==
    /\ orch = "complete"
    /\ \E delOk \in BOOLEAN :
         LET c == Complete(cleanup, storage, cur.name, crunchRes, delOk)
         IN  /\ storage' = c.storage
             /\ fin' = [fin EXCEPT ![cur.name] =
                          [calls |-> @.calls + 1,
                           success |-> crunchRes.ok,
                           deletes |-> @.deletes + (IF c.attempted THEN 1 ELSE 0),
                           retOk |-> c.ret.ok]]
             /\ lastFin' = [name |-> cur.name, status |-> crunchRes,
                            attempted |-> c.attempted, ret |-> c.ret]
    /\ orch' = "recv"
    /\ cur' = NoSet
    /\ crunchRes' = Ok
    /\ UNCHANGED <<okCount, errCount, reported, runResult>>
    /\ UNCHANGED <<cleanup, capacity, disc, loopErr, listPos, unit, permits,
                   queue, rxOpen>>
    /\ UNCHANGED <<db, emit, received>>
    /\ trail' = trail \o <<"finalize">>
                \o (IF lastFin'.attempted THEN <<"delete">> ELSE <<>>)
    /\ UNCHANGED <<storeVars, toolVars, listing>>

\* ------------------------------------------- concurrent callers of the store
Callers == {1, 2}
NoCaller == 0

\* Every buffer of at most MaxLines lines.
Bodies == UNION {[1..n -> Lines] : n \in 0..MaxLines}

\* A connection handed out without mutual exclusion.
LockAlwaysFree == TRUE

\* self.conn.lock() returns once no other caller holds the guard.
LockFree == lockHolder = NoCaller

\* The guard is dropped when crunch_gz returns.
Unlock(c) == lockHolder' = IF lockHolder = c THEN NoCaller ELSE lockHolder

\* crunch_gz: the buffer is decoded into entries; the ? on the collected
\* result returns a parse error before the connection is touched.
CallDecode(c) ==
    /\ caller[c] = "idle"
    /\ LET d == DecodeEntries(callData[c])
       IN  IF d.res.ok
           THEN /\ caller' = [caller EXCEPT ![c] = "decoded"]
                /\ UNCHANGED <<callRes, hist>>
           ELSE /\ caller' = [caller EXCEPT ![c] = "returned"]
                /\ callRes' = [callRes EXCEPT ![c] = d.res]
                /\ hist' = [hist EXCEPT ![c].retDb = db]
    /\ UNCHANGED <<callData, callIdx, lockHolder, txOpen, dbBefore, db>>
    /\ UNCHANGED <<pipeVars, orchVars, histVars, toolVars, trail, listing>>

\* let mut conn = self.conn.lock().unwrap();
CallLock(c) ==
    /\ caller[c] = "decoded"
    /\ LockFree
    /\ lockHolder' = c
    /\ caller' = [caller EXCEPT ![c] = "locked"]
    /\ UNCHANGED <<callData, callIdx, txOpen, dbBefore, callRes, hist, db>>
    /\ UNCHANGED <<pipeVars, orchVars, histVars, toolVars, trail, listing>>

\* let tx = conn.transaction()? succeeds.
CallBegin(c) ==
    /\ caller[c] = "locked"
    /\ caller' = [caller EXCEPT ![c] = "in_tx"]
    /\ txOpen' = txOpen \cup {c}
    /\ dbBefore' = [dbBefore EXCEPT ![c] = db]
    /\ callIdx' = [callIdx EXCEPT ![c] = 1]
    /\ hist' = [hist EXCEPT ![c].began = TRUE]
    /\ UNCHANGED <<callData, lockHolder, callRes, db>>
    /\ UNCHANGED <<pipeVars, orchVars, histVars, toolVars, trail, listing>>

\* conn.transaction() fails: "could not begin transaction".
CallBeginErr(c) ==
    /\ caller[c] = "locked"
    /\ caller' = [caller EXCEPT ![c] = "returned"]
    /\ callRes' = [callRes EXCEPT ![c] =
                     Err(<<Frame("could not begin transaction", 0)>>)]
    /\ hist' = [hist EXCEPT ![c].retDb = db]
    /\ Unlock(c)
    /\ UNCHANGED <<callData, callIdx, txOpen, dbBefore, db>>
    /\ UNCHANGED <<pipeVars, orchVars, histVars, toolVars, trail, listing>>

\* One turn of the for loop: entry.store(&tx).with_context(..)?  A failure
\* returns at once; tx is dropped, then the guard.
CallStore(c) ==
    /\ caller[c] = "in_tx"
    /\ callIdx[c] <= Len(DecodeEntries(callData[c]).entries)
    /\ \E failStmt \in 0..5 :
         LET e == DecodeEntries(callData[c]).entries[callIdx[c]]
             r == StoreEntry(db, e, failStmt)
         IN  IF r.ok
             THEN /\ db' = r.tx
                  /\ callIdx' = [callIdx EXCEPT ![c] = @ + 1]
                  /\ hist' = [hist EXCEPT ![c].stored = @ + 1]
                  /\ UNCHANGED <<caller, txOpen, callRes, lockHolder>>
             ELSE /\ db' = DropTransaction(dbBefore[c], r.tx)
                  /\ caller' = [caller EXCEPT ![c] = "returned"]
                  /\ txOpen' = txOpen \ {c}
                  /\ callRes' = [callRes EXCEPT ![c] =
                                   Err(<<Frame("in entry", callIdx[c] - 1)>>)]
                  /\ hist' = [hist EXCEPT ![c].retDb = db',
                                          ![c].failed = callIdx[c]]
                  /\ Unlock(c)
                  /\ UNCHANGED callIdx
    /\ UNCHANGED <<callData, dbBefore>>
    /\ UNCHANGED <<pipeVars, orchVars, histVars, toolVars, trail, listing>>

\* tx.commit() succeeds after the last entry; Ok(()) is returned.
CallCommit(c) ==
    /\ caller[c] = "in_tx"
    /\ callIdx[c] > Len(DecodeEntries(callData[c]).entries)
    /\ caller' = [caller EXCEPT ![c] = "returned"]
    /\ txOpen' = txOpen \ {c}
    /\ callRes' = [callRes EXCEPT ![c] = Ok]
    /\ hist' = [hist EXCEPT ![c].retDb = db, ![c].committed = TRUE]
    /\ Unlock(c)
    /\ UNCHANGED <<callData, callIdx, dbBefore, db>>
    /\ UNCHANGED <<pipeVars, orchVars, histVars, toolVars, trail, listing>>

\* tx.commit() fails: "could not commit transaction"; the transaction ends
\* without its changes.
CallCommitErr(c) ==
    /\ caller[c] = "in_tx"
    /\ callIdx[c] > Len(DecodeEntries(callData[c]).entries)
    /\ db' = DropTransaction(dbBefore[c], db)
    /\ caller' = [caller EXCEPT ![c] = "returned"]
    /\ txOpen' = txOpen \ {c}
    /\ callRes' = [callRes EXCEPT ![c] =
                     Err(<<Frame("could not commit transaction", 0)>>)]
    /\ hist' = [hist EXCEPT ![c].retDb = db']
    /\ Unlock(c)
    /\ UNCHANGED <<callData, callIdx, dbBefore>>
    /\ UNCHANGED <<pipeVars, orchVars, histVars, toolVars, trail, listing>>

\* ------------------------------------------------------------ stream repair
\* The bytes of a stream: a comma, a closing brace, two whitespace bytes (the
\* space, the line feed) and one byte "x" that is none of these.
Bytes == {"x", ",", "}", " ", "\n"}
\* \s of the regular expression
IsSpace(b) == b \in {" ", "\n"}

RECURSIVE SeqsUpTo(_, _)
SeqsUpTo(S, n) ==
    IF n = 0
    THEN {<<>>}
    ELSE LET shorter == SeqsUpTo(S, n - 1)
         IN  shorter \cup {Append(q, b) : q \in {r \in shorter : Len(r) = n - 1}, b \in S}

\* A regular expression that also wants no whitespace around the brace: ,}$
TailMatchNoSpace(s, i) == s[i] = "," /\ i + 1 = Len(s) /\ s[i + 1] = "}"

\* Regex ,\s*}\s*$ matches s from position i to the end.
TailMatch(s, i) ==
    /\ s[i] = ","
    /\ \E j \in (i + 1)..Len(s) :
         /\ s[j] = "}"
         /\ \A k \in (i + 1)..(j - 1) : IsSpace(s[k])
         /\ \A k \in (j + 1)..Len(s) : IsSpace(s[k])

\* A repair that takes out the first comma of a line ending in a brace.
ReplaceFirstComma(s) ==
    IF \E i \in 1..Len(s) : s[i] = "," /\ \E j \in (i + 1)..Len(s) : TailMatch(s, j)
    THEN LET i == CHOOSE i \in 1..Len(s) :
                    s[i] = "," /\ \A k \in 1..(i - 1) : s[k] # ","
         IN  SubSeq(s, 1, i - 1) \o SubSeq(s, i + 1, Len(s))
    ELSE s

\* A repair that replaces the match by nothing.
ReplaceWithNothing(s) ==
    IF \E i \in 1..Len(s) : TailMatch(s, i)
    THEN LET i == CHOOSE i \in 1..Len(s) :
                    TailMatch(s, i) /\ \A k \in 1..(i - 1) : ~TailMatch(s, k)
         IN  SubSeq(s, 1, i - 1)
    ELSE s

\* re.replace(&s, "}"): the leftmost match is replaced by one closing brace,
\* a line without a match is returned as it is.
Replace(s) ==
    IF \E i \in 1..Len(s) : TailMatch(s, i)
    THEN LET i == CHOOSE i \in 1..Len(s) :
                    TailMatch(s, i) /\ \A k \in 1..(i - 1) : ~TailMatch(s, k)
         IN  SubSeq(s, 1, i - 1) \o <<"}">>
    ELSE s

\* BufRead::read_line: the bytes up to and including the next line feed, or
\* all that is left when there is none; nothing at the end of the input.
ReadLine(in) ==
    IF \E i \in 1..Len(in) : in[i] = "\n"
    THEN LET i == CHOOSE i \in 1..Len(in) :
                    in[i] = "\n" /\ \A k \in 1..(i - 1) : in[k] # "\n"
         IN  [line |-> SubSeq(in, 1, i), rest |-> SubSeq(in, i + 1, Len(in))]
    ELSE [line |-> in, rest |-> <<>>]

\* A read_from_buffer that forgets what did not fit into buf.
ReadFromBufferDropsRest(buf, size) ==
    LET len == IF Len(buf) < size THEN Len(buf) ELSE size
    IN  [bytes |-> SubSeq(buf, 1, len), buffer |-> <<>>]

\* CommaHacker::read_from_buffer with a buf of the given size.
ReadFromBuffer(buf, size) ==
    LET len == IF Len(buf) < size THEN Len(buf) ELSE size
    IN  [bytes |-> SubSeq(buf, 1, len), buffer |-> SubSeq(buf, len + 1, Len(buf))]

NoLine == [read |-> FALSE, line |-> <<>>, repaired |-> <<>>]
NoRead == [size |-> 0, len |-> 0, atEnd |-> FALSE]
\* The caller has seen the end of the stream: a read into a non-empty buf
\* returned no bytes.
EndOfStream == lastRead.size > 0 /\ lastRead.len = 0

\* A read without the test of self.buffer: every call reads a line, whose
\* repair takes the place of the carry-over.
ReadIgnoringCarryOver(size) ==
    /\ ~EndOfStream
    /\ LET l == ReadLine(input)
           r == ReadFromBuffer(Replace(l.line), size)
       IN  /\ input' = l.rest
           /\ buffer' = r.buffer
           /\ out' = out \o r.bytes
           /\ lastLine' = [read |-> TRUE, line |-> l.line,
                           repaired |-> Replace(l.line)]
           /\ lastRead' = [size |-> size, len |-> Len(r.bytes),
                           atEnd |-> input = <<>>]
    /\ UNCHANGED <<stream, ingestVars, pipeVars, orchVars, db, histVars, storeVars, trail, listing>>

\* <CommaHacker as Read>::read with a buf of the given size.
Read(size) ==
    /\ ~EndOfStream
    /\ IF buffer # <<>>
       THEN LET r == ReadFromBuffer(buffer, size)
            IN  /\ buffer' = r.buffer
                /\ out' = out \o r.bytes
                /\ lastRead' = [size |-> size, len |-> Len(r.bytes), atEnd |-> FALSE]
                /\ UNCHANGED <<input, lastLine>>
       ELSE LET l == ReadLine(input)
                r == ReadFromBuffer(Replace(l.line), size)
            IN  /\ input' = l.rest
                /\ buffer' = r.buffer
                /\ out' = out \o r.bytes
                /\ lastLine' = [read |-> TRUE, line |-> l.line,
                                repaired |-> Replace(l.line)]
                /\ lastRead' = [size |-> size, len |-> Len(r.bytes),
                                atEnd |-> input = <<>>]
    /\ UNCHANGED <<stream, ingestVars, pipeVars, orchVars, db, histVars, storeVars, trail, listing>>

\* ---------------------------------------------------------- record decoding
\* A JSON value of a log line: a string (its characters), a number or a bool.
JStr(chars) == [t |-> "string", s |-> chars, n |-> 0, b |-> FALSE]
JInt(n) == [t |-> "number", s |-> <<>>, n |-> n, b |-> FALSE]
JBool(b) == [t |-> "bool", s |-> <<>>, n |-> 0, b |-> b]

IsDigit(c) == \E i \in 1..10 : DigitChars[i] = c
DigitValue(c) == (CHOOSE i \in 1..10 : DigitChars[i] = c) - 1
AllDigits(chars) == chars # <<>> /\ \A i \in 1..Len(chars) : IsDigit(chars[i])
RECURSIVE DigitsValue(_)
DigitsValue(chars) ==
    IF chars = <<>>
    THEN 0
    ELSE DigitsValue(SubSeq(chars, 1, Len(chars) - 1)) * 10
         + DigitValue(chars[Len(chars)])

Decoded(v) == [ok |-> TRUE, val |-> v]
DecodeError == [ok |-> FALSE, val |-> 0]

\* str::parse of an unsigned integer: digits, after an optional plus sign.
ParseUnsigned(chars) ==
    LET body == IF chars # <<>> /\ chars[1] = "+" THEN Tail(chars) ELSE chars
    IN  IF AllDigits(body) THEN Decoded(DigitsValue(body)) ELSE DecodeError

\* deserialize_number_from_string for an unsigned T: StringOrInt is a String
\* that is parsed or a Number taken as it is; no other value matches.
DeserializeNumberFromString(v) ==
    CASE v.t = "string" -> ParseUnsigned(v.s)
      [] v.t = "number" /\ v.n >= 0 -> Decoded(v.n)
      [] OTHER -> DecodeError

\* A duration decoder that reads the number as milliseconds.
DeserializeDurationFromMsecString(v) ==
    LET number == DeserializeNumberFromString(v)
    IN  IF number.ok THEN Decoded(FromMicros(number.val * 1000)) ELSE number

\* deserialize_duration_from_usec_string: Duration::from_micros(number)
DeserializeDurationFromUsecString(v) ==
    LET number == DeserializeNumberFromString(v)
    IN  IF number.ok THEN Decoded(FromMicros(number.val)) ELSE number

\* A bit decoder that takes every nonzero number as true.
DeserializeBoolFromNonzero(v) ==
    LET number == CASE v.t = "string" -> ParseUnsigned(v.s)
                    [] v.t = "number" /\ v.n >= 0 -> Decoded(v.n)
                    [] v.t = "bool" -> Decoded(IF v.b THEN 1 ELSE 0)
                    [] OTHER -> DecodeError
    IN  IF number.ok THEN Decoded(number.val # 0) ELSE DecodeError

\* deserialize_bool_from_bitstring: StringLike is a String that is parsed as
\* usize, a Number(usize) or a Bool; 0 is false, 1 is true, the rest an error.
DeserializeBoolFromBitstring(v) ==
    LET number == CASE v.t = "string" -> ParseUnsigned(v.s)
                    [] v.t = "number" /\ v.n >= 0 -> Decoded(v.n)
                    [] v.t = "bool" -> Decoded(IF v.b THEN 1 ELSE 0)
                    [] OTHER -> DecodeError
    IN  CASE ~number.ok -> DecodeError
          [] number.val = 0 -> Decoded(FALSE)
          [] number.val = 1 -> Decoded(TRUE)
          [] OTHER -> DecodeError

\* The text of a timestamp: the seconds of the wall clock and the offset of
\* the zone in hours.  RFC 2822 puts the day name first; RFC 3339 puts a T
\* between time and zone, and writes Z for the zone +0.
IsSign(c) == c \in {"+", "-"}
Offset(sign, digit) ==
    IF sign = "-" THEN 0 - DigitValue(digit) ELSE DigitValue(digit)
NoDateTime == [ok |-> FALSE, local |-> 0, offset |-> 0]

\* DateTime::parse_from_rfc2822: a DateTime<FixedOffset>, or an error.
ParseFromRfc2822(chars) ==
    LET n == Len(chars)
    IN  IF /\ n >= 4
           /\ chars[1] = "Thu,"
           /\ AllDigits(SubSeq(chars, 2, n - 2))
           /\ IsSign(chars[n - 1])
           /\ IsDigit(chars[n])
        THEN [ok |-> TRUE, local |-> DigitsValue(SubSeq(chars, 2, n - 2)),
              offset |-> Offset(chars[n - 1], chars[n])]
        ELSE NoDateTime

\* DateTime::parse_from_rfc3339: a DateTime<FixedOffset>, or an error.
ParseFromRfc3339(chars) ==
    LET n == Len(chars)
    IN  CASE n >= 3 /\ chars[n] = "Z" /\ chars[n - 1] = "T"
             /\ AllDigits(SubSeq(chars, 1, n - 2)) ->
               [ok |-> TRUE, local |-> DigitsValue(SubSeq(chars, 1, n - 2)),
                offset |-> 0]
          [] n >= 4 /\ IsDigit(chars[n]) /\ IsSign(chars[n - 1])
             /\ chars[n - 2] = "T" /\ AllDigits(SubSeq(chars, 1, n - 3)) ->
               [ok |-> TRUE, local |-> DigitsValue(SubSeq(chars, 1, n - 3)),
                offset |-> Offset(chars[n - 1], chars[n])]
          [] OTHER -> NoDateTime

\* A conversion to Utc that keeps the wall clock and forgets the offset.
IntoUtcKeepingWallClock(dt) == dt.local

\* DateTime<FixedOffset> into DateTime<Utc>: the seconds since the epoch.
IntoUtc(dt) == dt.local - dt.offset * 3600

\* deserialize_start_time: StringLike is a String or a Number(i64).  A number
\* is the seconds since the epoch; a string is tried as RFC 2822, then as
\* RFC 3339, and is an error when it is neither.
DeserializeStartTime(v) ==
    CASE v.t = "number" -> Decoded(v.n)
      [] v.t = "string" ->
           LET rfc2822 == ParseFromRfc2822(v.s)
               rfc3339 == ParseFromRfc3339(v.s)
           IN  CASE rfc2822.ok -> Decoded(IntoUtc(rfc2822))
                 [] rfc3339.ok -> Decoded(IntoUtc(rfc3339))
                 [] OTHER -> DecodeError
      [] OTHER -> DecodeError

\* IpAddr::from_str on the text of an address: digits joined by dots are an
\* IPv4 address, two colons and digits an IPv6 address.  The address prints
\* as the text it was parsed from.
ParseIp(chars) ==
    CASE /\ Len(chars) = 7
         /\ \A i \in 1..7 : IF i % 2 = 1 THEN IsDigit(chars[i]) ELSE chars[i] = "." ->
           Decoded([v |-> 4, addr |-> chars])
      [] Len(chars) = 3 /\ chars[1] = ":" /\ chars[2] = ":" /\ IsDigit(chars[3]) ->
           Decoded([v |-> 6, addr |-> chars])
      [] OTHER -> DecodeError

\* The derived Deserialize of LogEntry on the fields of one JSON object.
DeserializeLogEntry(fields) ==
    LET ip == IF fields.clientIP.t = "string"
              THEN ParseIp(fields.clientIP.s) ELSE DecodeError
        asn == DeserializeNumberFromString(fields.ispID)
        requests == DeserializeNumberFromString(fields.requests)
        ipv6 == DeserializeBoolFromBitstring(fields.isIPv6)
        http2 == DeserializeBoolFromBitstring(fields.isH2)
        status == DeserializeNumberFromString(fields.respStatus)
        bytes == DeserializeNumberFromString(fields.respTotalBytes)
        duration == DeserializeDurationFromUsecString(fields.timeElapsed)
        start == DeserializeStartTime(fields.reqStartTime)
        strings == \A f \in {fields.countryCode, fields.urlPath, fields.httpReferer,
                             fields.httpUA, fields.cacheState} : f.t = "string"
    IN  IF /\ ip.ok /\ asn.ok /\ requests.ok /\ ipv6.ok /\ http2.ok
           /\ status.ok /\ bytes.ok /\ duration.ok /\ start.ok /\ strings
        THEN [ok |-> TRUE,
              entry |-> LogEntry(ip.val, fields.urlPath.s, fields.httpReferer.s,
                                 fields.httpUA.s, ipv6.val, http2.val,
                                 duration.val, start.val)]
        ELSE [ok |-> FALSE, entry |-> NULL]

\* ------------------------------------------------------------------ ingest
\* An object has at most MaxCopies lines, and crunch_gz is called at most
\* MaxIngests times.
MaxCopies == 2
MaxIngests == 2

\* The values a bit field, the request duration and the request start come
\* with; the other fields are those of one request.
BitValues ==
    {JStr(<<"0">>), JStr(<<"1">>), JStr(<<"2">>), JStr(<<"x">>),
     JInt(0), JInt(1), JInt(2), JInt(0 - 1), JBool(FALSE), JBool(TRUE)}
DurationValues ==
    {JStr(<<"1", "5", "0", "0">>), JInt(1500), JStr(<<"x">>)}
StartValues ==
    {JInt(1700000000), JInt(3600), JInt(7200), JBool(TRUE),
     JStr(<<"1", "7", "0", "0", "0", "0", "0", "0", "0", "0">>), JStr(<<"x">>),
     JStr(<<"Thu,", "3", "6", "0", "0", "+", "0">>),
     JStr(<<"Thu,", "7", "2", "0", "0", "+", "1">>),
     JStr(<<"Thu,", "3", "6", "0", "0", "-", "1">>),
     JStr(<<"3", "6", "0", "0", "T", "Z">>),
     JStr(<<"7", "2", "0", "0", "T", "+", "0">>),
     JStr(<<"7", "2", "0", "0", "T", "+", "1">>)}
Fields(ipv6, http2, elapsed, start) ==
    [clientIP |-> JStr(<<"1", ".", "2", ".", "3", ".", "4">>),
     ispID |-> JStr(<<"6", "4", "5", "1", "2">>),
     countryCode |-> JStr(<<"U", "S">>),
     requests |-> JStr(<<"3">>),
     isIPv6 |-> ipv6,
     isH2 |-> http2,
     urlPath |-> JStr(<<"/", "x">>),
     httpReferer |-> JStr(<<>>),
     httpUA |-> JStr(<<"u", "a">>),
     cacheState |-> JStr(<<"H", "I", "T">>),
     respStatus |-> JStr(<<"2", "0", "0">>),
     respTotalBytes |-> JStr(<<"5", "1", "2">>),
     timeElapsed |-> elapsed,
     reqStartTime |-> start]
Objects ==
    {[fields |-> Fields(ipv6, http2, elapsed, start), comma |-> comma, copies |-> n] :
        ipv6 \in BitValues, http2 \in {JStr(<<"1">>), JInt(0)},
        elapsed \in DurationValues, start \in StartValues,
        comma \in BOOLEAN, n \in 1..MaxCopies}

\* The bytes of a line: "x" stands for the opening brace and the fields; a
\* comma may follow the last field.
LineText(obj) ==
    <<"x">> \o (IF obj.comma THEN <<",">> ELSE <<>>) \o <<"}", "\n">>
RECURSIVE Repeat(_, _)
Repeat(text, n) == IF n = 0 THEN <<>> ELSE text \o Repeat(text, n - 1)
\* The bytes GzDecoder yields for the object.
ObjectText(obj) == Repeat(LineText(obj), obj.copies)

\* A reader that reads the bytes as they are.
ReadToEndUnrepaired(in) == in

\* What a reader gets that reads a CommaHacker to its end.
RECURSIVE ReadToEnd(_)
ReadToEnd(in) ==
    IF in = <<>>
    THEN <<>>
    ELSE LET l == ReadLine(in) IN Replace(l.line) \o ReadToEnd(l.rest)

\* serde_json's StreamDeserializer over the repaired bytes, enumerated and
\* collected: whitespace between values is skipped, a value is the fields
\* closed by a brace, and a comma before the brace is a syntax error.
RECURSIVE DeserializeFrom(_, _, _)
DeserializeFrom(text, fields, i) ==
    CASE text = <<>> -> [res |-> Ok, entries |-> <<>>]
      [] text # <<>> /\ IsSpace(text[1]) -> DeserializeFrom(Tail(text), fields, i)
      [] Len(text) >= 2 /\ text[1] = "x" /\ text[2] = "}" ->
           LET e == DeserializeLogEntry(fields)
               rest == DeserializeFrom(SubSeq(text, 3, Len(text)), fields, i + 1)
           IN  CASE ~e.ok ->
                      [res |-> Err(<<Frame("JSON parse error in entry", i)>>),
                       entries |-> <<>>]
                 [] e.ok /\ rest.res.ok ->
                      [res |-> Ok, entries |-> <<e.entry>> \o rest.entries]
                 [] OTHER -> rest
      [] OTHER -> [res |-> Err(<<Frame("JSON parse error in entry", i)>>),
                   entries |-> <<>>]

\* Cruncher::crunch_gz on the object, called by the only holder of the
\* Cruncher: repair and decode every line, then store the entries in one
\* transaction.
CrunchGz(d, obj, f) ==
    LET dec == DeserializeFrom(ReadToEnd(ObjectText(obj)), obj.fields, 0)
    IN  IF ~dec.res.ok
        THEN [db |-> d, res |-> dec.res, entries |-> <<>>]
        ELSE LET c == Crunch(d, dec.entries, f)
             IN  [db |-> c.db, res |-> c.res, entries |-> dec.entries]

NoIngest == [entries |-> <<>>, res |-> Ok, before |-> EmptyDb]

\* One call of crunch_gz on the object.
Ingest ==
    /\ ingests < MaxIngests
    /\ \E f \in {NoFail, [at |-> "commit", i |-> 0, stmt |-> 0],
                 [at |-> "entry", i |-> 1, stmt |-> 5]} :
         LET r == CrunchGz(db, cursor, f)
         IN  /\ db' = r.db
             /\ ingest' = [entries |-> r.entries, res |-> r.res, before |-> db]
    /\ ingests' = ingests + 1
    /\ UNCHANGED <<cursor, hackVars, pipeVars, orchVars, histVars, storeVars, trail, listing>>

\* ------------------------------------------------------------ specification
PipeInit ==
    /\ storage = Names
    /\ disc = "lister"
    /\ loopErr = Ok
    /\ listPos = 0
    /\ unit = [i \in Names |-> "none"]
    /\ permits = capacity
    /\ queue = <<>>
    /\ rxOpen = TRUE
    /\ orch = "open"
    /\ cur = NoSet
    /\ crunchRes = Ok
    /\ okCount = 0
    /\ errCount = 0
    /\ reported = NotReported
    /\ runResult = Ok
    /\ db = EmptyDb
    /\ emit = [i \in Names |-> [n |-> 0, ok |-> FALSE]]
    /\ fin = [i \in Names |-> [calls |-> 0, success |-> FALSE, deletes |-> 0,
                              retOk |-> FALSE]]
    /\ lastFin = [name |-> 0, status |-> Ok, attempted |-> FALSE, ret |-> Ok]
    /\ received = [n |-> 0, errs |-> 0, sets |-> {}]
    /\ trail = <<>>
    /\ listing = [i \in Names |-> "none"]

HackInit ==
    /\ buffer = <<>>
    /\ out = <<>>
    /\ lastLine = NoLine
    /\ lastRead = NoRead

IngestInit ==
    /\ ingests = 0
    /\ ingest = NoIngest

NoHist == [stored |-> 0, failed |-> 0, began |-> FALSE, committed |-> FALSE,
           retDb |-> EmptyDb]

StoreInit ==
    /\ caller = [c \in Callers |-> "idle"]
    /\ callIdx = [c \in Callers |-> 0]
    /\ lockHolder = NoCaller
    /\ txOpen = {}
    /\ dbBefore = [c \in Callers |-> EmptyDb]
    /\ callRes = [c \in Callers |-> Ok]
    /\ hist = [c \in Callers |-> NoHist]

\* Nothing is read through a CommaHacker and crunch_gz is not called.
NoTools ==
    /\ HackInit
    /\ input = <<>>
    /\ stream = <<>>
    /\ IngestInit
    /\ cursor = [fields |-> Fields(JInt(0), JInt(0), JInt(0), JInt(0)),
                 comma |-> FALSE, copies |-> 1]

\* One run of Cruncher::crunch; nobody else calls the store.
Init ==
    /\ cleanup \in BOOLEAN
    /\ capacity \in 1..MaxCapacity
    /\ PipeInit
    /\ StoreInit
    /\ callData = [c \in Callers |-> <<>>]
    /\ NoTools

\* Callers of crunch_gz, each with a buffer of its own; no pipeline runs.
InitStore ==
    /\ cleanup = FALSE
    /\ capacity = 1
    /\ PipeInit
    /\ StoreInit
    /\ callData \in [Callers -> Bodies]
    /\ NoTools

\* A caller reads one input of at most MaxStream bytes through a CommaHacker.
InitRepair ==
    /\ cleanup = FALSE
    /\ capacity = 1
    /\ PipeInit
    /\ StoreInit
    /\ callData = [c \in Callers |-> <<>>]
    /\ HackInit
    /\ stream \in SeqsUpTo(Bytes, MaxStream)
    /\ input = stream
    /\ IngestInit
    /\ cursor = [fields |-> Fields(JInt(0), JInt(0), JInt(0), JInt(0)),
                 comma |-> FALSE, copies |-> 1]

Reads == \E size \in 0..MaxRead : Read(size)

\* One object is handed to crunch_gz of a Cruncher with an empty database.
InitIngest ==
    /\ cleanup = FALSE
    /\ capacity = 1
    /\ PipeInit
    /\ StoreInit
    /\ callData = [c \in Callers |-> <<>>]
    /\ HackInit
    /\ input = <<>>
    /\ stream = <<>>
    /\ IngestInit
    /\ cursor \in Objects

StoreCalls ==
    \E c \in Callers :
        \/ CallDecode(c)
        \/ CallLock(c)
        \/ CallBegin(c)
        \/ CallBeginErr(c)
        \/ CallStore(c)
        \/ CallCommit(c)
        \/ CallCommitErr(c)

Discovery ==
    \/ DiscListerOk
    \/ DiscListerErr
    \/ DiscNextEntry
    \/ DiscNextError
    \/ DiscSendErr
    \/ DiscSendErrClosed
    \/ DiscNextNone
    \/ DiscSendFinal
    \/ DiscSendFinalClosed

Units ==
    \E i \in Names :
        \/ UnitReserve(i)
        \/ UnitReserveClosed(i)
        \/ UnitFetchSend(i)

Orchestrator ==
    \/ OrchOpen
    \/ OrchOpenErr
    \/ OrchRecvSet
    \/ OrchRecvErr
    \/ OrchRecvNone
    \/ OrchDecode
    \/ OrchCrunch
    \/ OrchComplete

Next == Discovery \/ Units \/ Orchestrator

vars == <<pipeVars, orchVars, db, histVars, storeVars, toolVars, trail, listing>>

Spec == Init /\ [][Next]_vars

SpecStore == InitStore /\ [][StoreCalls]_vars

SpecRepair == InitRepair /\ [][Reads]_vars

SpecIngest == InitIngest /\ [][Ingest]_vars

\* The tokio scheduler polls every task that can make progress: no step of
\* the discovery task, of a unit or of the orchestrator stays enabled for
\* ever without being taken.
Fairness ==
    /\ WF_vars(Discovery)
    /\ \A i \in Names :
         WF_vars(UnitReserve(i) \/ UnitReserveClosed(i) \/ UnitFetchSend(i))
    /\ WF_vars(Orchestrator)

FairSpec == Spec /\ Fairness

\* ------------------------------------------------------------------ claims
\* C1: a delete of the source object is attempted by a finalize call iff
\* cleanup is enabled and the outcome passed to it is success; on a failure
\* outcome no delete is attempted and the original failure is returned with
\* the object name as added context.
C1_DeleteIffCleanupAndSuccess ==
    /\ lastFin.name # 0 =>
         /\ lastFin.attempted <=> (cleanup /\ lastFin.status.ok)
         /\ ~lastFin.status.ok =>
              lastFin.ret = Err(<<Frame("in handling object", lastFin.name)>>
                                \o lastFin.status.err)
    /\ \A i \in Names :
         fin[i].deletes = IF cleanup /\ fin[i].success THEN fin[i].calls ELSE 0

\* A run in which one object was finalized on failure and a later one had
\* its delete attempted.
C1_Witness ==
    /\ lastFin.attempted
    /\ \E i \in Names : fin[i].calls = 1 /\ ~fin[i].success /\ i # lastFin.name

\* C2: the units past slot acquisition that have not emitted yet never
\* number more than the capacity.
C2_AtMostCapacityRetrieving == Cardinality(Fetching) <= capacity

\* Every slot is held by a retrieving unit while another unit waits.
C2_Witness ==
    /\ Cardinality(Fetching) = capacity
    /\ \E i \in Names : unit[i] = "waiting"

\* C3: at the end of a run every FetchedSet that was emitted on the channel
\* has been finalized exactly once.
C3_EmittedSetsFinalizedOnce ==
    /\ \A i \in Names : fin[i].calls <= 1
    /\ (orch \in {"done", "aborted"} /\ SendersDropped) =>
         \A i \in Names : (emit[i].n > 0 /\ emit[i].ok) => fin[i].calls = 1

\* C4: an error item received from the pipeline does not end the run: the
\* receiver is given up only at end-of-stream, when the totals are reported.
C4_ErrorItemNotFatal ==
    (~rxOpen /\ orch # "failed") => (orch = "done" /\ reported.done)

\* C6: no identifier yields two results; while the consumer is receiving a
\* unit that ended has emitted its result; and when the consumer sees the
\* channel closed every unit spawned has emitted exactly one result.
C6_OneResultPerIdentifier ==
    /\ \A i \in Names : emit[i].n <= 1
    /\ rxOpen => \A i \in Names :
                   /\ unit[i] # "gone"
                   /\ unit[i] = "done" <=> emit[i].n = 1
    /\ orch = "done" => \A i \in Names : unit[i] # "none" => emit[i].n = 1

\* The consumer saw the channel closed after every listed object, more of
\* them than there are slots, had emitted a result.
C6_Witness ==
    /\ orch = "done"
    /\ listPos = NumEntries
    /\ \A i \in Names : emit[i].n = 1

\* C8 as stated: after finalize has returned the object is absent iff
\* cleanup is enabled and success was reported.
C8_AbsentIffCleanupAndSuccess ==
    \A i \in Names :
        fin[i].calls > 0 => (i \notin storage <=> (cleanup /\ fin[i].success))

\* C8 amended: after finalize has returned the object is absent iff cleanup
\* is enabled, success was reported and finalize returned Ok; an object
\* that was never finalized is still there.
C8_AbsentIffDeleted ==
    \A i \in Names :
        i \notin storage <=>
            (fin[i].calls > 0 /\ cleanup /\ fin[i].success /\ fin[i].retOk)

\* An object was deleted by its finalization and another one, finalized on
\* failure, was kept.
C8_Witness ==
    \E i, j \in Names :
        /\ i \notin storage
        /\ fin[j].calls > 0 /\ ~fin[j].success /\ j \in storage

\* The lines of a buffer that serde_json rejects.
BadPositions(data) == {i \in 1..Len(data) : data[i] = BadLine}
FirstBad(data) == CHOOSE i \in BadPositions(data) : \A j \in BadPositions(data) : i <= j

\* C5: a store call commits only if every entry was stored; when storing
\* entry i fails, the contents at return are those at the start of the
\* transaction and the error is that first failure, annotated with i.
C5_StoreAllOrNothing ==
    \A c \in Callers :
        /\ hist[c].committed =>
             /\ hist[c].stored = Len(callData[c])
             /\ hist[c].failed = 0
             /\ callRes[c].ok
        /\ (caller[c] = "returned" /\ hist[c].failed > 0) =>
             /\ hist[c].retDb = dbBefore[c]
             /\ hist[c].stored = hist[c].failed - 1
             /\ callRes[c] = Err(<<Frame("in entry", hist[c].failed - 1)>>)
             /\ ~hist[c].committed

\* A call failed on its second entry, after the first one was stored.
C5_Witness ==
    \E c \in Callers :
        caller[c] = "returned" /\ hist[c].failed = 2 /\ hist[c].stored = 1

\* C9: at most one transaction is open at any time, and its caller holds
\* the connection lock; nobody else is past lock().
C9_OneTransactionAtATime ==
    /\ Cardinality(txOpen) <= 1
    /\ \A c \in Callers :
         (c \in txOpen \/ caller[c] \in {"locked", "in_tx"}) => lockHolder = c

\* One caller is inside its transaction while the other waits at lock().
C9_Witness ==
    \E c, d \in Callers :
        c # d /\ c \in txOpen /\ hist[c].stored > 0 /\ caller[d] = "decoded"

\* C10: a buffer with a line that does not decode yields the error tagged
\* with the 0-based position of the first such line, nothing of the buffer
\* is passed to the store, and the call fails.
C10_DecodeAllOrNothing ==
    \A c \in Callers :
        BadPositions(callData[c]) # {} =>
            /\ caller[c] \in {"idle", "returned"}
            /\ ~hist[c].began
            /\ hist[c].stored = 0
            /\ caller[c] = "returned" =>
                 callRes[c] = Err(<<Frame("JSON parse error in entry",
                                          FirstBad(callData[c]) - 1)>>)

\* A call returned after its second line failed to decode, the first line
\* being a good one.
C10_Witness ==
    \E c \in Callers :
        /\ caller[c] = "returned"
        /\ Len(callData[c]) >= 2
        /\ callData[c][1] # BadLine
        /\ callData[c][2] = BadLine

\* C7: with the listing over, retrievals ending and the consumer still
\* receiving, the run reaches its end: every unit spawned has acquired a
\* slot and emitted, the channel is closed and empty, and the loop has
\* ended with the totals reported.  (The consumer stops receiving only when
\* crunch returns early.)
C7_Termination ==
    <>(\/ orch \in {"aborted", "failed"}
       \/ /\ orch = "done"
          /\ reported.done
          /\ SendersDropped
          /\ queue = <<>>
          /\ \A i \in Names : unit[i] \in {"none", "done"})

\* The run ended with the totals reported after more objects than there
\* are slots were received.
C7_Witness ==
    /\ orch = "done"
    /\ reported.done
    /\ received.n = NumEntries
    /\ received.n > capacity

\* The call of crunch_gz failed while decoding, or while storing.
DecodeFailed ==
    ~ingest.res.ok /\ ingest.res.err[1].msg = "JSON parse error in entry"
StoreFailed == ~ingest.res.ok /\ ~DecodeFailed
\* The object of the end-to-end scenario: one line with a trailing comma,
\* every value a string but for the request start, which is given.
Scenario(start) ==
    [fields |-> Fields(JStr(<<"0">>), JStr(<<"1">>), JStr(<<"1", "5", "0", "0">>), start),
     comma |-> TRUE, copies |-> 1]
EpochString == JStr(<<"1", "7", "0", "0", "0", "0", "0", "0", "0", "0">>)
OneRowEach(d) ==
    /\ Len(d.requests) = 1
    /\ Len(d.client_ips) = 1
    /\ Len(d.paths) = 1
    /\ Len(d.referers) = 1
    /\ Len(d.user_agents) = 1

\* C11 as stated: the scenario object, whose request start is the string
\* "1700000000", is repaired, decoded and stored, and an empty store then
\* holds one fact row and one row in each dimension table.
C11_ScenarioIngested ==
    (cursor = Scenario(EpochString) /\ ingests = 1 /\ ~StoreFailed)
        => (ingest.res.ok /\ OneRowEach(db))

\* C11 amended: with the request start given as the number 1700000000 the
\* scenario object is repaired, decoded and stored, and an empty store then
\* holds one fact row and one row in each dimension table; with the string
\* "1700000000" decoding fails at entry 0 and the store stays empty.
C11_ScenarioIngestedWithEpochNumber ==
    /\ (cursor = Scenario(JInt(1700000000)) /\ ingests = 1 /\ ~StoreFailed)
         => (ingest.res.ok /\ OneRowEach(db))
    /\ (cursor = Scenario(EpochString) /\ ingests >= 1)
         => (/\ ingest.res = Err(<<Frame("JSON parse error in entry", 0)>>)
             /\ db = EmptyDb)
C11_Witness ==
    /\ cursor = Scenario(JInt(1700000000))
    /\ ingests = 1
    /\ ingest.res.ok
    /\ OneRowEach(db)
    /\ db.requests[1].client_ip = 1

\* The object has the bit fields and the duration of the scenario.
ScenarioValues ==
    /\ cursor.fields.isIPv6 = JStr(<<"0">>)
    /\ cursor.fields.isH2 = JStr(<<"1">>)
    /\ cursor.fields.timeElapsed = JStr(<<"1", "5", "0", "0">>)

\* C12 as stated: the fact row stored for "timeElapsed":"1500", "isIPv6":"0",
\* "isH2":"1" has a response duration of 1.5 seconds, ipv6 false, http2 true.
C12_DurationOneAndAHalfSeconds ==
    (ScenarioValues /\ ingests >= 1 /\ ingest.res.ok)
        => \A i \in 1..Len(db.requests) :
             /\ db.requests[i].response_duration = 1500000
             /\ db.requests[i].ipv6 = FALSE
             /\ db.requests[i].http2 = TRUE

\* C12 amended: the fact row stored for "timeElapsed":"1500", "isIPv6":"0",
\* "isH2":"1" has a response duration of 1500 microseconds (0.0015 seconds),
\* ipv6 false, http2 true.
C12_DurationInMicroseconds ==
    (ScenarioValues /\ ingests >= 1 /\ ingest.res.ok)
        => \A i \in 1..Len(db.requests) :
             /\ db.requests[i].response_duration = 1500
             /\ db.requests[i].ipv6 = FALSE
             /\ db.requests[i].http2 = TRUE
C12_Witness ==
    /\ cursor = Scenario(JInt(1700000000))
    /\ ingest.res.ok
    /\ Len(db.requests) = 1
    /\ db.requests[1].response_duration = 1500
    /\ ~db.requests[1].ipv6
    /\ db.requests[1].http2

\* C13: storing the same decoded record twice, in one batch or in two
\* successive calls, adds one fact row per record stored and leaves one row
\* for its natural key in each dimension table.
C13_DimensionsDeduplicated ==
    (ingests >= 1 /\ ingest.res.ok)
        => /\ Len(db.requests) = Len(ingest.before.requests) + cursor.copies
           /\ Len(db.client_ips) = 1
           /\ Len(db.paths) = 1
           /\ Len(db.referers) = 1
           /\ Len(db.user_agents) = 1
C13_Witness ==
    /\ ingests = 2
    /\ ingest.res.ok
    /\ cursor.copies = 2
    /\ Len(db.requests) = 4
    /\ Len(db.client_ips) = 1

\* The line is its first n bytes, a comma, optional whitespace and a closing
\* brace at the end of the line, where only whitespace (the line feed) follows.
CommaBraceForm(line, n) ==
    /\ n + 2 <= Len(line)
    /\ line[n + 1] = ","
    /\ \E j \in (n + 2)..Len(line) :
         /\ line[j] = "}"
         /\ \A k \in ((n + 2)..Len(line)) \ {j} : line[k] \in {" ", "\n"}

C15_ChunkingInvariance ==
    /\ out \o buffer \o ReadToEnd(input) = ReadToEnd(stream)
    /\ EndOfStream => out = ReadToEnd(stream)
C15_Witness ==
    /\ EndOfStream
    /\ stream = <<"x", ",", "}", "\n">>
    /\ out = <<"x", "}">>
    /\ lastRead.size = 1

\* C16 as stated: repairing a repaired line changes nothing.
C16_RepairIdempotent ==
    lastLine.read => Replace(lastLine.repaired) = lastLine.repaired

\* The comma the repair takes out follows another comma, with at most
\* whitespace between the two.
DoubledComma(line) ==
    \E n \in 1..Len(line) :
        /\ CommaBraceForm(line, n)
        /\ \E k \in 1..n : line[k] = "," /\ \A j \in (k + 1)..n : IsSpace(line[j])

\* C16 amended: repairing a repaired line changes nothing, unless the comma
\* taken out followed another comma (with at most whitespace between them):
\* X,,} is repaired to X,} and a second repair gives X}.
C16_RepairIdempotentBarDoubledComma ==
    lastLine.read =>
        IF DoubledComma(lastLine.line)
        THEN Replace(lastLine.repaired) # lastLine.repaired
        ELSE Replace(lastLine.repaired) = lastLine.repaired
C16_Witness ==
    /\ lastLine.read
    /\ lastLine.line = <<"x", ",", "}", "\n">>
    /\ lastLine.repaired = <<"x", "}">>
    /\ Replace(lastLine.repaired) = <<"x", "}">>

\* The first entry crunch_gz decoded in its latest call.
Entry == ingest.entries[1]
EntryDecoded == ingests >= 1 /\ ingest.entries # <<>>
\* The fields other than isIPv6 decode.
OtherFieldsDecode ==
    /\ DeserializeBoolFromBitstring(cursor.fields.isH2).ok
    /\ DeserializeDurationFromUsecString(cursor.fields.timeElapsed).ok
    /\ DeserializeStartTime(cursor.fields.reqStartTime).ok

\* C17: a bit field given as "1", 1 or true decodes to true, given as "0", 0
\* or false to false, and any other integer (2, -1) is a decode error.
C17_BitField ==
    ingests >= 1 =>
        LET v == cursor.fields.isIPv6
        IN  /\ v \in {JStr(<<"1">>), JInt(1), JBool(TRUE)}
                 => IF OtherFieldsDecode
                    THEN EntryDecoded /\ Entry.ipv6 = TRUE
                    ELSE DecodeFailed
            /\ v \in {JStr(<<"0">>), JInt(0), JBool(FALSE)}
                 => IF OtherFieldsDecode
                    THEN EntryDecoded /\ Entry.ipv6 = FALSE
                    ELSE DecodeFailed
            /\ (v.t = "number" /\ v.n \notin {0, 1}) => DecodeFailed
C17_Witness ==
    /\ EntryDecoded
    /\ cursor.fields.isIPv6 = JBool(TRUE)
    /\ Entry.ipv6 = TRUE
    /\ cursor.fields.isH2 = JInt(0)
    /\ Entry.http2 = FALSE

\* The strings in RFC 2822 and in RFC 3339 among the request starts, with
\* the moment each of them names in seconds since the epoch.
Rfc2822Moments ==
    {<<JStr(<<"Thu,", "3", "6", "0", "0", "+", "0">>), 3600>>,
     <<JStr(<<"Thu,", "7", "2", "0", "0", "+", "1">>), 3600>>,
     <<JStr(<<"Thu,", "3", "6", "0", "0", "-", "1">>), 7200>>}
Rfc3339Moments ==
    {<<JStr(<<"3", "6", "0", "0", "T", "Z">>), 3600>>,
     <<JStr(<<"7", "2", "0", "0", "T", "+", "0">>), 7200>>,
     <<JStr(<<"7", "2", "0", "0", "T", "+", "1">>), 3600>>}
OtherStrings == {EpochString, JStr(<<"x">>)}

\* C18: the request start given as a number of seconds since the epoch
\* decodes to that instant; given as a string in RFC 2822 or RFC 3339 it
\* decodes to the instant of the moment the string names, so two strings for
\* one moment give one instant; any other string is a decode error.
C18_StartTime ==
    ingests >= 1 =>
        LET v == cursor.fields.reqStartTime
        IN  /\ (v.t = "number" /\ EntryDecoded) => Entry.request_start_time = v.n
            /\ \A m \in Rfc2822Moments \cup Rfc3339Moments :
                 (v = m[1] /\ EntryDecoded) => Entry.request_start_time = m[2]
            /\ v \in OtherStrings => DecodeFailed
            /\ v.t \in {"number", "string"} /\ v \notin OtherStrings
                 /\ DeserializeBoolFromBitstring(cursor.fields.isIPv6).ok
                 /\ DeserializeDurationFromUsecString(cursor.fields.timeElapsed).ok
                 => EntryDecoded
C18_Witness ==
    /\ EntryDecoded
    /\ cursor.fields.reqStartTime = JStr(<<"Thu,", "7", "2", "0", "0", "+", "1">>)
    /\ Entry.request_start_time = 3600

\* C19: within one object the records are decoded before the transaction of
\* the store begins, the store call has returned before finalize is called,
\* and a delete of the object is attempted only after its transaction has
\* committed.
C19_PhasesOrdered ==
    \A i \in 1..Len(trail) :
        /\ trail[i] \in {"begin", "begin failed"}
             => \E j \in 1..(i - 1) : trail[j] = "decoded"
        /\ trail[i] = "finalize"
             => /\ \A j \in (i + 1)..Len(trail) : trail[j] = "delete"
                /\ (\E j \in 1..(i - 1) : trail[j] = "decoded")
                     => \E j \in 1..(i - 1) : trail[j] = "store returned"
        /\ trail[i] = "delete"
             => /\ \E j \in 1..(i - 1) : trail[j] = "commit"
                /\ \E j \in 1..(i - 1) : trail[j] = "finalize"
C19_Witness ==
    trail = <<"decoded", "begin", "commit", "store returned", "finalize", "delete">>

\* C20 as stated: the discovery loop never waits for a slot or for the
\* consumer: inside the loop it can always take its next step.
C20_DiscoveryNeverWaits ==
    disc \in {"next", "send_err"} => ENABLED Discovery

\* C20 amended: when the lister yields an identifier the loop spawns its unit
\* and goes on at once, even while every slot is held and the consumer is
\* not receiving; when the lister yields an error the loop waits to send it
\* until a slot is free or the consumer is gone.
C20_ListingWaitsOnlyToSendError ==
    /\ (disc = "next" /\ listPos < NumEntries) => ENABLED DiscNextEntry
    /\ disc = "next" => ENABLED Discovery
    /\ disc = "send_err" => (ENABLED Discovery <=> (permits > 0 \/ ~rxOpen))
C20_Witness ==
    /\ disc = "next"
    /\ listPos < NumEntries
    /\ permits = 0
    /\ orch = "open"
    /\ \E i \in Names : unit[i] = "fetching"
    /\ ENABLED DiscNextEntry

\* C21: a listing error is put on the channel as a failure result and the
\* loop goes on listing: while the consumer is receiving, every identifier
\* listed after the error gets a unit, no unit gives up, a unit that ended
\* has emitted its result, and in the end the lister has yielded its last
\* entry and every identifier has its result.
C21_ListingErrorNotFatal ==
    /\ [][\A k \in Names :
            (listing[k] = "error" /\ listing'[k] # "error")
                => IF rxOpen
                   THEN /\ listing'[k] = "reported"
                        /\ queue' = Append(queue,
                               ErrItem(<<Frame("in listing bucket entries: ", k)>>))
                        /\ disc' = "next"
                   ELSE listing'[k] = "unsent"]_vars
    /\ [](\A k \in Names, j \in Names :
            (k < j /\ listing[k] = "reported" /\ listing[j] = "entry")
                => /\ unit[j] # "none"
                   /\ rxOpen => (unit[j] # "gone" /\ (unit[j] = "done" => emit[j].n = 1)))
    /\ (\E k \in Names : listing[k] = "reported")
         ~> (\/ ~rxOpen
             \/ /\ disc = "done"
                /\ \A j \in Names : listing[j] = "entry" => emit[j].n = 1)
C21_Witness ==
    /\ rxOpen
    /\ disc = "done"
    /\ \E k \in Names, j \in Names :
         k < j /\ listing[k] = "reported" /\ listing[j] = "entry" /\ emit[j].n = 1

\* The payloads in memory: those being retrieved by a unit that holds a
\* slot, those buffered in the channel, and the one the orchestrator holds.
Retrieving == Cardinality(Fetching)
Buffered == Len(SelectSeq(queue, LAMBDA m : m.ok))
Held == IF cur # NoSet THEN 1 ELSE 0

\* C22 as stated: the payloads being retrieved, buffered in the channel or
\* held by the orchestrator are never more than capacity.
C22_PayloadsWithinCapacity ==
    Retrieving + Buffered + Held <= capacity

\* C22 amended: the payloads being retrieved or buffered in the channel are
\* never more than capacity, and with the one the orchestrator holds while it
\* processes it the payloads in memory are never more than capacity + 1.
C22_PayloadsWithinCapacityPlusOne ==
    /\ Retrieving + Buffered <= capacity
    /\ Retrieving + Buffered + Held <= capacity + 1
C22_Witness ==
    /\ Held = 1
    /\ Retrieving + Buffered = capacity
    /\ Buffered >= 1

\* The dimension rows fact row r refers to exist and carry the natural keys
\* of the record numbered k.
RefersTo(r, k) ==
    /\ r.client_ip \in 1..Len(db.client_ips)
    /\ db.client_ips[r.client_ip] = [ipv4 |-> GetIpv4(ParseLine(k).entry.client_ip),
                                     ipv6 |-> GetIpv6(ParseLine(k).entry.client_ip)]
    /\ r.url_path \in 1..Len(db.paths)
    /\ db.paths[r.url_path] = k
    /\ r.referer \in 1..Len(db.referers)
    /\ db.referers[r.referer] = k
    /\ r.user_agent \in 1..Len(db.user_agents)
    /\ db.user_agents[r.user_agent] = k

\* C23: in every state of the store, committed or inside a transaction, each
\* fact row refers for client IP, path, referer and user agent to a
\* dimension row that exists and carries the natural key of the record the
\* fact row was stored for; no reference is null.
C23_ReferentialCompleteness ==
    \A i \in 1..Len(db.requests) :
        /\ db.requests[i].client_ip # NULL
        /\ db.requests[i].url_path # NULL
        /\ db.requests[i].referer # NULL
        /\ db.requests[i].user_agent # NULL
        /\ \E k \in Keys : RefersTo(db.requests[i], k)
C23_Witness ==
    /\ txOpen = {}
    /\ \A c \in Callers : caller[c] = "returned" /\ callRes[c].ok
    /\ \E i \in 1..Len(db.requests), j \in 1..Len(db.requests) :
         /\ RefersTo(db.requests[i], 1)
         /\ RefersTo(db.requests[j], 2)
         /\ db.requests[i].client_ip # db.requests[j].client_ip

\* C24: the counters are exact: the sets whose processing has ended are
\* counted once each, as ok or as err; every failure result received from
\* the pipeline is counted as an error; and when the run has ended the
\* totals have been reported with ok + err equal to the number of items
\* received.
C24_CountersExact ==
    /\ errCount >= received.errs
    /\ orch \in {"done", "aborted"} =>
         /\ reported.done
         /\ reported.ok + reported.err = received.n

\* C25: once the receiver has been dropped, a unit that holds no slot leaves
\* its wait only by ending, in a step that starts no retrieval, emits no
\* result and reports no error on the channel or to discovery; such a unit
\* has never emitted; and from then on every spawned unit and the discovery
\* task end.
C25_ConsumerGone ==
    /\ [][\A i \in Names :
            (~rxOpen /\ unit[i] = "waiting" /\ unit'[i] # "waiting")
                => /\ unit'[i] = "gone"
                   /\ Fetching' = Fetching
                   /\ queue' = queue
                   /\ emit' = emit
                   /\ loopErr' = loopErr
                   /\ permits' = permits]_vars
    /\ [](\A i \in Names : unit[i] = "gone" => (~rxOpen /\ emit[i].n = 0))
    /\ (~rxOpen) ~> (disc = "done" /\ \A i \in Names : unit[i] \in {"none", "done", "gone"})
C25_Witness ==
    /\ ~rxOpen
    /\ disc = "done"
    /\ \E i, j \in Names :
         /\ unit[i] = "gone"
         /\ unit[j] = "done" /\ emit[j].n = 0

\* The first n elements of a sequence.
Prefix(q, n) == SubSeq(q, 1, n)
Min(a, b) == IF a < b THEN a ELSE b

\* C26: a read with a non-empty carry-over leaves the source and the last
\* line read as they are and returns the first bytes of the carry-over, as
\* many as fit, the rest staying in the carry-over in order; a line is read
\* from the source only with an empty carry-over, and its repair is what is
\* returned and carried over; so no read drops, doubles or reorders a byte
\* of what is still to be returned.
C26_CarryOverServedFirst ==
    [][LET len == Min(Len(buffer), lastRead'.size)
       IN  /\ buffer # <<>> =>
                /\ input' = input
                /\ lastLine' = lastLine
                /\ lastRead'.len = len
                /\ out' = out \o Prefix(buffer, len)
                /\ buffer' = SubSeq(buffer, len + 1, Len(buffer))
           /\ input' # input =>
                /\ buffer = <<>>
                /\ input = lastLine'.line \o input'
                /\ out' \o buffer' = out \o lastLine'.repaired
           /\ Len(out') = Len(out) + lastRead'.len
           /\ out' \o buffer' \o ReadToEnd(input') = out \o buffer \o ReadToEnd(input)]_vars
C26_Witness ==
    /\ stream = <<"x", ",", "}", "x">>
    /\ lastLine.read
    /\ lastLine.line = <<"x", ",", "}", "x">>
    /\ out = <<"x", ",", "}">>
    /\ buffer = <<"x">>
    /\ lastRead = [size |-> 1, len |-> 1, atEnd |-> FALSE]

\* C27: a read into a non-empty buf returns no bytes only when the source
\* was at its end and the carry-over empty, and by then every byte has been
\* returned; the repair of a non-empty line is not empty.
C27_NoEarlyEndOfStream ==
    /\ (lastRead.size > 0 /\ lastRead.len = 0) =>
         /\ lastRead.atEnd
         /\ input = <<>>
         /\ buffer = <<>>
         /\ Len(out) >= Len(ReadToEnd(stream))
    /\ (lastLine.read /\ lastLine.line # <<>>) => lastLine.repaired # <<>>
C27_Witness ==
    /\ stream = <<",", "}", "\n", "x">>
    /\ lastRead.size > 0 /\ lastRead.len = 0
    /\ out = <<"}", "x">>

====
